---------------------------- MODULE Spec2Model ----------------------------
(***************************************************************************)
(* Sub-agent session components of the gooey front end.                    *)
(*                                                                         *)
(* SubAgentChatViewer, EnhancedTaskWidget and SubAgentSession are React    *)
(* components that subscribe to Tauri event topics and build a transcript  *)
(* and an activity flag from the events they receive.  Each React state    *)
(* or ref of a component is a variable here, a function from the component *)
(* instance to the value it holds.  A state setter is modelled as the      *)
(* assignment its call requests: what React does with an update requested  *)
(* for an unmounted component is outside the repository.                   *)
(***************************************************************************)
EXTENDS Integers, Sequences, FiniteSets, TLC

(***************************************************************************)
(* JavaScript values.  A value is a tuple of strings whose head is what    *)
(* typeof (or a null test) tells about it, so that values of different     *)
(* types can be compared.                                                  *)
(***************************************************************************)
Undefined == <<>>
Null == <<"null">>
Str(s) == <<"string", s>>
Obj(key, text) == <<"object", key, text>>

TypeOf(v) == IF v = Undefined THEN "undefined" ELSE v[1]
Truthy(v) == v \notin {Undefined, Null, Str("")}
OrElse(v, w) == IF Truthy(v) THEN v ELSE w

\* JSON.stringify: undefined has no JSON text (the call returns undefined);
\* every other value of the model has a text of its own.
JSONstringify(v) == IF v = Undefined THEN Undefined ELSE <<"json">> \o v

(***************************************************************************)
(* Bounds of the model.                                                    *)
(***************************************************************************)
MaxEvents == 2
MaxClock == 1

(***************************************************************************)
(* Time.  The clock counts ticks of TickMs milliseconds; Date values are   *)
(* milliseconds, timestamps are the strings toISOString makes of them.     *)
(***************************************************************************)
DedupWindowMs == 100
TickMs == DedupWindowMs
Instants == {k * TickMs : k \in 0..(MaxClock + 1)}
toISOString(ms) == "1970-01-01T00:00:00." \o ToString(ms) \o "Z"
IsoTable == [ms \in Instants |-> toISOString(ms)]

\* new Date(s).getTime(): the instant an ISO string denotes, NaN otherwise.
NaN == [nan |-> TRUE, ms |-> 0]
DateGetTime(ts) ==
    IF TypeOf(ts) = "string" /\ \E ms \in Instants : IsoTable[ms] = ts[2]
    THEN [nan |-> FALSE, ms |-> CHOOSE ms \in Instants : IsoTable[ms] = ts[2]]
    ELSE NaN

Abs(n) == IF n < 0 THEN -n ELSE n


\* String.prototype.includes
Includes(hay, needle) ==
    \E k \in 0..(Len(hay) - Len(needle)) : SubSeq(hay, k + 1, k + Len(needle)) = needle

\* the property key of an object of the model
Prop(v, key) ==
    IF TypeOf(v) = "object" /\ v[2] = key THEN Str(v[3]) ELSE Undefined

\* String(v), as a template literal prints a value.
ToStr(v) == IF v = Undefined THEN "undefined" ELSE IF v = Null THEN "null" ELSE v[2]

(***************************************************************************)
(* State.                                                                  *)
(***************************************************************************)
VARIABLES
    component,          \* which component each instance is
    props,              \* the props of each instance
    openedWith,         \* the result prop each instance was constructed with
    mounted,            \* "none", "mounted" or "unmounted"
    isSubAgentActive,   \* useState
    subAgentMessages,   \* useState (SubAgentChatViewer)
    processedEvents,    \* useRef: Set<string>
    unlistenRefs,       \* useRef: UnlistenFn[]
    subAgentOutput,     \* useState (EnhancedTaskWidget)
    subAgentStatus,     \* useState (EnhancedTaskWidget)
    liveMessages,       \* useState (SubAgentSession, TaskWithLiveSession)
    isMountedRef,       \* useRef (SubAgentSession, TaskWithLiveSession)
    capturedMessagesRef, \* useRef: Set<string> (TaskWithLiveSession)
    effectDeps,         \* the isSubAgentActive the listener effect of a
                        \* SubAgentSession or TaskWithLiveSession last ran with
    setupPc,            \* position of setupListeners: 0 not called, k awaiting
                        \* the k-th listen(), past the last one returned, -k
                        \* ended by the failure of the k-th listen()
    completed,          \* history: a complete event was accepted or a result
                        \* was supplied
    lateEvents,         \* history: the events handed to a handler of the
                        \* instance after it unmounted
    lastHandled,        \* history: the event last handed to a handler of the
                        \* instance, and the number of that delivery
    listeners,          \* the transport's live registrations <<instance, k>>
    released,           \* the registrations whose unlisten function was called
    now,                \* the clock, in ticks
    nEvents,            \* number of events published so far
    textArg,            \* textUtils: the argument of preprocessTextForMarkdown
    processedText,      \* textUtils: textArg, then what the last call returned
    filePath,           \* textUtils: the argument of the path functions
    fileName,           \* textUtils: what getFileName returned
    parentAndFileName,  \* textUtils: what getParentAndFileName returned
    calls               \* textUtils: number of calls made so far

vars == <<component, props, openedWith, mounted, isSubAgentActive, subAgentMessages,
          processedEvents, unlistenRefs, subAgentOutput, subAgentStatus,
          liveMessages, isMountedRef, capturedMessagesRef, effectDeps, setupPc,
          completed, lateEvents, lastHandled, listeners, released, now, nEvents,
          textArg, processedText, filePath, fileName, parentAndFileName, calls>>

\* the variables only an EnhancedTaskWidget or a SubAgentSession has
textVars == <<textArg, processedText, filePath, fileName, parentAndFileName, calls>>
widgetVars == <<subAgentOutput, subAgentStatus>>
sessionVars == <<liveMessages, isMountedRef, capturedMessagesRef, effectDeps>>
viewerVars == <<subAgentMessages, processedEvents>>

Instances == {1, 2}
ToolIdOf(i) == IF i = 1 THEN "t1" ELSE "t2"
ToolIds == {ToolIdOf(i) : i \in Instances}
ParentSessionId == "p1"
Descriptions == {"d1", "d2"}

\* The result prop: null until the tool result is known (StreamMessage passes
\* toolResults.get(toolId) || null), then a string or an object.
NoResult == Null
Results == {Str("done"), Obj("content", "done"), Obj("output", "done"),
            Obj("text", "done"), Obj("session_id", "s1")}

NowMs == now * TickMs
NowIso == Str(toISOString(NowMs))

(***************************************************************************)
(* ClaudeStreamMessage entries of a transcript.  seq and src are history   *)
(* fields: the number of the delivery that made the entry (0 for an entry  *)
(* made by an effect) and the event it was made from.                      *)
(***************************************************************************)
NoData == [text |-> "", tool_id |-> Undefined, subagent_id |-> Undefined,
           subagent_pid |-> Undefined, output |-> Undefined,
           description |-> Undefined, subagent_type |-> Undefined,
           type |-> Undefined, message |-> FALSE, m_type |-> Undefined,
           m_subtype |-> Undefined, m_message |-> Undefined,
           m_timestamp |-> Undefined]
\* text: the payload when it is a string.  message: whether data.message is
\* an object, with the fields m_type, m_subtype, m_message, m_timestamp; a
\* data.message that is a plain string is held by m_message alone.
NoEvent == [topic |-> "", data |-> NoData]

Entry(type, subtype, message, result, timestamp, seq, src) ==
    [type |-> type, subtype |-> subtype, message |-> message, result |-> result,
     timestamp |-> timestamp, seq |-> seq, src |-> src]

\* { content: [{ type: "text", text }] }
TextContent(text) == <<"object", "content", "text", ToStr(text)>>

\* the object data.message itself, as the fallback branch stores it
MessageObject(data) ==
    <<"object", "type", ToStr(data.m_type), "subtype", ToStr(data.m_subtype),
      "timestamp", ToStr(data.m_timestamp)>>

(***************************************************************************)
(* SubAgentChatViewer: the event handlers.  A handler maps the view of one *)
(* instance, the states and refs a handler reads or sets, to the view      *)
(* after the handler and the state updates it requested have run.  e is    *)
(* the event, seq the number of the delivery, toolId the prop the handler  *)
(* closed over.                                                            *)
(***************************************************************************)
View(i) == [active |-> isSubAgentActive[i], msgs |-> subAgentMessages[i],
            processed |-> processedEvents[i], completed |-> completed[i],
            output |-> subAgentOutput[i], status |-> subAgentStatus[i],
            live |-> liveMessages[i], isMounted |-> isMountedRef[i],
            captured |-> capturedMessagesRef[i]]

\* subagent-detected:{parentSessionId}
detectHandler(v, e, seq, toolId) ==
    LET detectionMessage ==
            Entry(Str("system"), Str("info"), Undefined,
                  Str("Sub-agent process detected: PID " \o ToStr(e.data.subagent_pid)),
                  NowIso, seq, e)
    IN [v EXCEPT !.msgs = Append(v.msgs, detectionMessage), !.active = TRUE]

outputHandler_onlyWhileActive(v, e, seq, toolId) ==
    IF v.active
    THEN [v EXCEPT !.msgs = Append(v.msgs,
            Entry(Str("assistant"), Undefined, TextContent(e.data.output), Undefined,
                  NowIso, seq, e))]
    ELSE v

\* subagent-output:{parentSessionId}
outputHandler(v, e, seq, toolId) ==
    LET outputMessage ==
            Entry(Str("assistant"), Undefined, TextContent(e.data.output), Undefined,
                  NowIso, seq, e)
    IN [v EXCEPT !.msgs = Append(v.msgs, outputMessage)]

StartMessage(e, seq) ==
    Entry(Str("system"), Str("info"), Undefined,
          Str("Starting " \o ToStr(OrElse(e.data.subagent_type, Str("Task")))
                \o " sub-agent: " \o ToStr(e.data.description)),
          NowIso, seq, e)

startHandler_everyTime(v, e, seq, toolId) ==
    IF e.data.tool_id = Str(toolId)
    THEN [v EXCEPT !.active = TRUE,
                   !.msgs = <<StartMessage(e, seq)>>,
                   !.processed = v.processed \cup {"start-" \o ToStr(e.data.tool_id)}]
    ELSE v

\* subagent-started:{parentSessionId}
startHandler(v, e, seq, toolId) ==
    LET eventId == "start-" \o ToStr(e.data.tool_id)
    IN IF e.data.tool_id = Str(toolId) /\ eventId \notin v.processed
       THEN [v EXCEPT !.active = TRUE,
                      !.msgs = <<StartMessage(e, seq)>>,
                      !.processed = v.processed \cup {eventId}]
       ELSE v

ConvertMessage_ignoresType(data, seq, e) ==
    Entry(Str("assistant"), data.m_subtype,
          IF TypeOf(data.m_message) = "string" THEN TextContent(data.m_message)
          ELSE IF Truthy(data.m_message) THEN data.m_message ELSE MessageObject(data),
          Undefined, OrElse(data.m_timestamp, NowIso), seq, e)

\* the three shape branches of the message handler
ConvertMessage(data, seq, e) ==
    LET type == OrElse(data.m_type, Str("assistant"))
        thinking == data.type = Str("subagent_thinking")
        timestamp == OrElse(data.m_timestamp, NowIso)
    IN IF TypeOf(data.m_message) = "string"
       THEN Entry(type, IF thinking THEN Str("thinking") ELSE data.m_subtype,
                  TextContent(data.m_message),
                  IF data.m_type = Str("system") THEN data.m_message ELSE Undefined,
                  timestamp, seq, e)
       ELSE IF Truthy(data.m_message)
       THEN Entry(type, IF thinking THEN Str("thinking") ELSE data.m_subtype,
                  data.m_message, Undefined, timestamp, seq, e)
       ELSE Entry(type, IF thinking THEN Str("thinking") ELSE Undefined,
                  MessageObject(data), Undefined, timestamp, seq, e)

sameTime(m, message) ==
    LET a == DateGetTime(m.timestamp)
        b == DateGetTime(message.timestamp)
    IN ~a.nan /\ ~b.nan /\ Abs(a.ms - b.ms) < DedupWindowMs

sameContent(m, message) ==
    \/ JSONstringify(m.message) = JSONstringify(message.message)
    \/ JSONstringify(m.result) = JSONstringify(message.result)

isDuplicate(prev, message) ==
    \E n \in 1..Len(prev) : sameTime(prev[n], message) /\ sameContent(prev[n], message)

AddMessage_prepend(prev, message) ==
    IF isDuplicate(prev, message) THEN prev ELSE <<message>> \o prev

\* the updater passed to setSubAgentMessages by the message handler
AddMessage(prev, message) ==
    IF isDuplicate(prev, message) THEN prev ELSE Append(prev, message)

messageHandler_reactivates(v, e, seq, toolId) ==
    IF Truthy(e.data.tool_id) /\ e.data.tool_id # Str(toolId)
    THEN v
    ELSE IF e.data.message
    THEN [v EXCEPT !.active = TRUE,
                   !.msgs = AddMessage(v.msgs, ConvertMessage(e.data, seq, e))]
    ELSE v

\* subagent-message:{parentSessionId}
messageHandler(v, e, seq, toolId) ==
    LET data == e.data
        \* Math.random() makes the id one no earlier delivery has produced
        messageId == "msg-" \o ToStr(OrElse(data.tool_id, Str("unknown"))) \o "-"
                       \o ToStr(OrElse(data.m_timestamp, Str(ToString(NowMs))))
                       \o "-" \o ToString(seq)
    IN IF Truthy(data.tool_id) /\ data.tool_id # Str(toolId)
       THEN v
       ELSE IF messageId \notin v.processed /\ data.message
       THEN [v EXCEPT !.processed = v.processed \cup {messageId},
                      !.msgs = AddMessage(v.msgs, ConvertMessage(data, seq, e))]
       ELSE v

CompletionMessage(e, seq) ==
    Entry(Str("system"), Str("success"), Undefined,
          Str("Sub-agent task completed successfully"), NowIso, seq, e)

\* subagent-complete:{parentSessionId}
completeHandler(v, e, seq, toolId) ==
    LET eventId == "complete-" \o ToStr(e.data.tool_id)
    IN IF e.data.tool_id = Str(toolId) /\ eventId \notin v.processed
       THEN [v EXCEPT !.active = FALSE,
                      !.msgs = Append(v.msgs, CompletionMessage(e, seq)),
                      !.processed = v.processed \cup {eventId},
                      !.completed = TRUE]
       ELSE v

\* subagent-started:{actualSessionId}
actualStartHandler(v, e, seq, toolId) ==
    [v EXCEPT !.active = TRUE, !.msgs = <<StartMessage(e, seq)>>]

actualMessageHandler_keepsSubtype(v, e, seq, toolId) ==
    IF e.data.message
    THEN [v EXCEPT !.msgs = Append(v.msgs,
            Entry(OrElse(e.data.m_type, Str("assistant")), e.data.m_subtype,
                  IF TypeOf(e.data.m_message) = "string"
                  THEN TextContent(e.data.m_message) ELSE e.data.m_message,
                  Undefined, OrElse(e.data.m_timestamp, NowIso), seq, e))]
    ELSE v

\* subagent-message:{actualSessionId}
actualMessageHandler(v, e, seq, toolId) ==
    LET data == e.data
        type == OrElse(data.m_type, Str("assistant"))
        subtype == IF data.type = Str("subagent_thinking") THEN Str("thinking")
                   ELSE data.m_subtype
        timestamp == OrElse(data.m_timestamp, NowIso)
        message ==
            IF TypeOf(data.m_message) = "string"
            THEN Entry(type, subtype, TextContent(data.m_message),
                       IF data.m_type = Str("system") THEN data.m_message ELSE Undefined,
                       timestamp, seq, e)
            ELSE Entry(type, subtype, data.m_message, Undefined, timestamp, seq, e)
    IN IF data.message THEN [v EXCEPT !.msgs = Append(v.msgs, message)] ELSE v

\* subagent-complete:{actualSessionId}
actualCompleteHandler(v, e, seq, toolId) ==
    [v EXCEPT !.active = FALSE, !.msgs = Append(v.msgs, CompletionMessage(e, seq))]

(***************************************************************************)
(* SubAgentChatViewer: the topics setupListeners subscribes to, in the     *)
(* order of its listen() calls.                                            *)
(***************************************************************************)
actualSessionId == "2c84ea8d"

ViewerTopic(k, parentSessionId) ==
    CASE k = 1 -> "subagent-detected:" \o parentSessionId
      [] k = 2 -> "subagent-output:" \o parentSessionId
      [] k = 3 -> "subagent-started:" \o parentSessionId
      [] k = 4 -> "subagent-message:" \o parentSessionId
      [] k = 5 -> "subagent-complete:" \o parentSessionId
      [] k = 6 -> "subagent-started:" \o actualSessionId
      [] k = 7 -> "subagent-message:" \o actualSessionId
      [] k = 8 -> "subagent-complete:" \o actualSessionId

ViewerHandler(k, v, e, seq, toolId) ==
    CASE k = 1 -> detectHandler(v, e, seq, toolId)
      [] k = 2 -> outputHandler(v, e, seq, toolId)
      [] k = 3 -> startHandler(v, e, seq, toolId)
      [] k = 4 -> messageHandler(v, e, seq, toolId)
      [] k = 5 -> completeHandler(v, e, seq, toolId)
      [] k = 6 -> actualStartHandler(v, e, seq, toolId)
      [] k = 7 -> actualMessageHandler(v, e, seq, toolId)
      [] k = 8 -> actualCompleteHandler(v, e, seq, toolId)

\* the listen() calls of one run of setupListeners
ViewerListens(p) ==
    IF Str(actualSessionId) # p.parentSessionId THEN 8 ELSE 5

InitialMessages_alwaysInitializing(p) ==
    <<Entry(Str("system"), Str("info"), Undefined,
            Str("Initializing " \o ToStr(OrElse(p.subagent_type, Str("task")))
                  \o " sub-agent: " \o p.description),
            NowIso, 0, NoEvent)>>

\* The initial-message effect (deps: description, subagent_type, result):
\* the transcript it sets, and the activity flag it leaves.
InitialMessages(p) ==
    IF ~Truthy(p.result)
    THEN <<Entry(Str("system"), Str("info"), Undefined,
                 Str("Initializing " \o ToStr(OrElse(p.subagent_type, Str("task")))
                       \o " sub-agent: " \o p.description),
                 NowIso, 0, NoEvent)>>
    ELSE <<Entry(Str("system"), Str("success"), Undefined,
                 Str("Sub-agent task completed: " \o p.description),
                 NowIso, 0, NoEvent)>>

InitialActive(p, active) == IF ~Truthy(p.result) THEN active ELSE FALSE

ViewerEffectRuns_ignoresResult(p) == Truthy(p.parentSessionId)

\* The guard of the listener effect of SubAgentChatViewer: setupListeners is
\* called, and runs up to its first await, unless the effect returns early.
ViewerEffectRuns(p) == ~(~Truthy(p.parentSessionId) \/ Truthy(p.result))

(***************************************************************************)
(* EnhancedTaskWidget.                                                     *)
(***************************************************************************)
\* subagent-started:{parentSessionId}
widgetStartHandler(v, e, seq, toolId) ==
    IF e.data.tool_id = Str(toolId)
    THEN [v EXCEPT !.active = TRUE, !.status = "Sub-agent process started"]
    ELSE v

\* subagent-output:{parentSessionId}
widgetOutputHandler(v, e, seq, toolId) ==
    IF e.data.subagent_id # Undefined /\ Includes(ToStr(e.data.subagent_id), toolId)
    THEN [v EXCEPT !.output = Append(v.output, e),
                   !.status = IF e.data.type = Str("status")
                              THEN ToStr(e.data.m_message) ELSE v.status]
    ELSE v

\* subagent-complete:{parentSessionId}
widgetCompleteHandler(v, e, seq, toolId) ==
    IF e.data.tool_id = Str(toolId)
    THEN [v EXCEPT !.active = FALSE, !.status = "Sub-agent completed",
                   !.completed = TRUE]
    ELSE v

WidgetTopic(k, parentSessionId) ==
    CASE k = 1 -> "subagent-started:" \o parentSessionId
      [] k = 2 -> "subagent-output:" \o parentSessionId
      [] k = 3 -> "subagent-complete:" \o parentSessionId

WidgetHandler(k, v, e, seq, toolId) ==
    CASE k = 1 -> widgetStartHandler(v, e, seq, toolId)
      [] k = 2 -> widgetOutputHandler(v, e, seq, toolId)
      [] k = 3 -> widgetCompleteHandler(v, e, seq, toolId)

\* the guard of the listener effect of EnhancedTaskWidget
WidgetEffectRuns(p) == ~(~Truthy(p.parentSessionId) \/ Truthy(p.result))

\* parseResult, as the three components define it
parseResult(result) ==
    IF ~Truthy(result) THEN Null
    ELSE IF TypeOf(result) = "string" THEN result
    ELSE IF Truthy(Prop(result, "content")) THEN Prop(result, "content")
    ELSE IF Truthy(Prop(result, "output")) THEN Prop(result, "output")
    ELSE IF Truthy(Prop(result, "text")) THEN Prop(result, "text")
    ELSE JSONstringify(result)

\* isActive of EnhancedTaskWidget
isActive(i) == ~Truthy(parseResult(props[i].result)) \/ isSubAgentActive[i]

(***************************************************************************)
(* SubAgentSession.  The payload of its events is a string, e.data.text; an *)
(* entry of liveMessages is the value it holds with the history fields seq *)
(* and src.                                                                *)
(***************************************************************************)
LiveEntry(value, seq, src) == [value |-> value, seq |-> seq, src |-> src]

\* JSON.parse: the text of an object parses to that object, any other text
\* of the model makes it throw.
IsJSON(text) ==
    Len(text) >= 2 /\ SubSeq(text, 1, 1) = "{" /\ SubSeq(text, Len(text), Len(text)) = "}"
JSONparse(text) == <<"object", text>>

extractSessionId(p) ==
    IF Truthy(p.session_id) THEN p.session_id
    ELSE IF Truthy(Prop(p.result, "session_id")) THEN Prop(p.result, "session_id")
    ELSE Null

sessionOutputHandler_unguarded(v, e, seq, subAgentSessionId) ==
    IF IsJSON(e.data.text)
    THEN [v EXCEPT !.live = Append(v.live, LiveEntry(JSONparse(e.data.text), seq, e))]
    ELSE v

\* claude-output:{subAgentSessionId}
sessionOutputHandler(v, e, seq, subAgentSessionId) ==
    IF ~v.isMounted THEN v
    ELSE IF IsJSON(e.data.text)
    THEN [v EXCEPT !.live = Append(v.live, LiveEntry(JSONparse(e.data.text), seq, e))]
    ELSE v

\* claude-complete:{subAgentSessionId}
sessionCompleteHandler(v, e, seq, subAgentSessionId) ==
    IF ~v.isMounted THEN v
    ELSE [v EXCEPT !.active = FALSE, !.completed = TRUE]

sessionErrorHandler_replaces(v, e, seq, subAgentSessionId) ==
    IF ~v.isMounted THEN v
    ELSE [v EXCEPT !.live =
            <<LiveEntry(<<"object", "type", "system", "subtype", "error",
                          "result", e.data.text, "timestamp", ToStr(NowIso)>>, seq, e)>>]

\* claude-error:{subAgentSessionId}
sessionErrorHandler(v, e, seq, subAgentSessionId) ==
    IF ~v.isMounted THEN v
    ELSE [v EXCEPT !.live = Append(v.live,
            LiveEntry(<<"object", "type", "system", "subtype", "error",
                        "result", e.data.text, "timestamp", ToStr(NowIso)>>, seq, e))]

sessionGenericOutputHandler_noCheck(v, e, seq, subAgentSessionId) ==
    IF ~v.isMounted THEN v
    ELSE IF (Includes(e.data.text, subAgentSessionId) \/ Includes(e.data.text, "Task"))
            /\ IsJSON(e.data.text)
    THEN [v EXCEPT !.live = Append(v.live, LiveEntry(JSONparse(e.data.text), seq, e))]
    ELSE v

\* claude-output
sessionGenericOutputHandler(v, e, seq, subAgentSessionId) ==
    IF ~v.isMounted THEN v
    ELSE IF Includes(e.data.text, subAgentSessionId) \/ Includes(e.data.text, "Task")
    THEN IF IsJSON(e.data.text)
         THEN IF \E n \in 1..Len(v.live) :
                    JSONstringify(v.live[n].value) = JSONstringify(JSONparse(e.data.text))
              THEN v
              ELSE [v EXCEPT !.live = Append(v.live, LiveEntry(JSONparse(e.data.text), seq, e))]
         ELSE v
    ELSE v

SessionTopic(k, subAgentSessionId) ==
    CASE k = 1 -> "claude-output:" \o subAgentSessionId
      [] k = 2 -> "claude-complete:" \o subAgentSessionId
      [] k = 3 -> "claude-error:" \o subAgentSessionId
      [] k = 4 -> "claude-output"

SessionHandler(k, v, e, seq, subAgentSessionId) ==
    CASE k = 1 -> sessionOutputHandler(v, e, seq, subAgentSessionId)
      [] k = 2 -> sessionCompleteHandler(v, e, seq, subAgentSessionId)
      [] k = 3 -> sessionErrorHandler(v, e, seq, subAgentSessionId)
      [] k = 4 -> sessionGenericOutputHandler(v, e, seq, subAgentSessionId)

\* the guard of the listener effect of SubAgentSession
SessionEffectRuns(p, active) == ~(~Truthy(extractSessionId(p)) \/ ~active)

(***************************************************************************)
(* TaskWithLiveSession.  It subscribes to the generic topic only; p is the *)
(* props the handler closed over.                                          *)
(***************************************************************************)
\* String.prototype.substring(0, n)
Substring0(text, n) == SubSeq(text, 1, IF Len(text) < n THEN Len(text) ELSE n)

isSubAgentMessage(payload, p) ==
    \/ Includes(payload, "Task")
    \/ Includes(payload, "sub_agent")
    \/ Includes(payload, "delegate")
    \/ p.description # "" /\ Includes(payload, Substring0(p.description, 20))
    \/ Truthy(p.subagent_type) /\ Includes(payload, ToStr(p.subagent_type))

taskOutputHandler_setsActive(v, e, seq, p) ==
    IF ~v.isMounted THEN v
    ELSE IF isSubAgentMessage(e.data.text, p)
            /\ Substring0(e.data.text, 100) \notin v.captured
    THEN [v EXCEPT !.active = TRUE,
                   !.captured = v.captured \cup {Substring0(e.data.text, 100)},
                   !.live = Append(v.live,
                        LiveEntry(IF IsJSON(e.data.text) THEN JSONparse(e.data.text)
                                  ELSE <<"object", "type", "text", "content", e.data.text>>,
                                  seq, e))]
    ELSE v

\* claude-output
taskOutputHandler(v, e, seq, p) ==
    LET payload == e.data.text
        messageKey == Substring0(payload, 100)
        messageContent == IF IsJSON(payload) THEN JSONparse(payload)
                          ELSE <<"object", "type", "text", "content", payload>>
    IN IF ~v.isMounted THEN v
       ELSE IF isSubAgentMessage(payload, p) /\ messageKey \notin v.captured
       THEN [v EXCEPT !.captured = v.captured \cup {messageKey},
                      !.live = Append(v.live, LiveEntry(messageContent, seq, e))]
       ELSE v

\* the guard of the listener effect of TaskWithLiveSession
TaskEffectRuns(p, active) == ~(~active)

(***************************************************************************)
(* The life of an instance: mount, the listen() calls of setupListeners,   *)
(* re-renders with new props, unmount.                                     *)
(***************************************************************************)
Viewer == "SubAgentChatViewer"
Widget == "EnhancedTaskWidget"
Session == "SubAgentSession"
Task == "TaskWithLiveSession"

Props(i, description, result, session_id) ==
    [description |-> description, subagent_type |-> Undefined,
     toolId |-> ToolIdOf(i), parentSessionId |-> Str(ParentSessionId),
     session_id |-> session_id, result |-> result]

TopicOf(i, k) ==
    CASE component[i] = Viewer -> ViewerTopic(k, ToStr(props[i].parentSessionId))
      [] component[i] = Widget -> WidgetTopic(k, ToStr(props[i].parentSessionId))
      [] component[i] = Session -> SessionTopic(k, ToStr(extractSessionId(props[i])))
      [] component[i] = Task -> "claude-output"

\* the number of listen() calls of one run of setupListeners
Listens(i) ==
    CASE component[i] = Viewer -> ViewerListens(props[i])
      [] component[i] = Widget -> 3
      [] component[i] = Session -> 4
      [] component[i] = Task -> 1

\* The state right after the instances I mounted, as the components C with
\* the props P, and their effects ran; the other instances do not exist.
\* no call of textUtils is modelled
TextIdle ==
    /\ textArg = <<>> /\ processedText = <<>> /\ calls = 0
    /\ filePath = <<>> /\ fileName = <<>> /\ parentAndFileName = <<>>

Mounted(I, C, P) ==
    /\ component = C
    /\ mounted = [i \in Instances |-> IF i \in I THEN "mounted" ELSE "none"]
    /\ props = P
    /\ openedWith = [i \in Instances |-> P[i].result]
    /\ now = 0
    /\ isSubAgentActive = [i \in Instances |->
            i \in I /\ C[i] # Widget /\ ~Truthy(P[i].result)]
    /\ subAgentMessages = [i \in Instances |->
            IF i \in I /\ C[i] = Viewer THEN InitialMessages(P[i]) ELSE <<>>]
    /\ processedEvents = [i \in Instances |-> {}]
    /\ unlistenRefs = [i \in Instances |-> <<>>]
    /\ subAgentOutput = [i \in Instances |-> <<>>]
    /\ subAgentStatus = [i \in Instances |-> ""]
    /\ liveMessages = [i \in Instances |-> <<>>]
    /\ isMountedRef = [i \in Instances |-> i \in I /\ C[i] \in {Session, Task}]
    /\ capturedMessagesRef = [i \in Instances |-> {}]
    /\ effectDeps = [i \in Instances |-> isSubAgentActive[i]]
    /\ setupPc = [i \in Instances |->
            IF /\ i \in I
               /\ CASE C[i] = Viewer -> ViewerEffectRuns(P[i])
                    [] C[i] = Widget -> WidgetEffectRuns(P[i])
                    [] C[i] = Session -> SessionEffectRuns(P[i], isSubAgentActive[i])
                    [] C[i] = Task -> TaskEffectRuns(P[i], isSubAgentActive[i])
            THEN 1 ELSE 0]
    /\ completed = [i \in Instances |-> i \in I /\ Truthy(P[i].result)]
    /\ lateEvents = [i \in Instances |-> 0]
    /\ lastHandled = [i \in Instances |-> [event |-> NoEvent, seq |-> 0]]
    /\ listeners = {}
    /\ released = {}
    /\ nEvents = 0

\* The listen() call setupListeners awaits resolves: the subscription is live,
\* its unlisten function is pushed, and the next listen() call is made.
ListenResolved(i) ==
    /\ setupPc[i] \in 1..Listens(i)
    /\ listeners' = listeners \cup {<<i, setupPc[i]>>}
    /\ unlistenRefs' = [unlistenRefs EXCEPT ![i] = Append(@, setupPc[i])]
    /\ setupPc' = [setupPc EXCEPT ![i] = @ + 1]
    /\ UNCHANGED <<textVars, component, props, openedWith, mounted, isSubAgentActive,
                   viewerVars, widgetVars, sessionVars, completed, lateEvents,
                   lastHandled, released,
                   now, nEvents>>

Cleanup_byTopic(i) ==
    /\ listeners' = {l \in listeners :
            \A n \in 1..Len(unlistenRefs[i]) :
                TopicOf(l[1], l[2]) # TopicOf(i, unlistenRefs[i][n])}
    /\ released' = released \cup {<<i, unlistenRefs[i][n]>> : n \in 1..Len(unlistenRefs[i])}
    /\ unlistenRefs' = [unlistenRefs EXCEPT ![i] = <<>>]
    /\ capturedMessagesRef' = [capturedMessagesRef EXCEPT ![i] =
            IF component[i] = Task THEN {} ELSE @]

\* The listen() call setupListeners awaits fails: the await throws and
\* setupListeners ends, in SubAgentSession and TaskWithLiveSession through
\* its catch block, with no further listen() call.
ListenFailed(i) ==
    /\ setupPc[i] \in 1..Listens(i)
    /\ setupPc' = [setupPc EXCEPT ![i] = 0 - @]
    /\ UNCHANGED <<textVars, component, props, openedWith, mounted, isSubAgentActive,
                   viewerVars, widgetVars, sessionVars, unlistenRefs, completed,
                   lateEvents, lastHandled, listeners, released, now, nEvents>>

\* The cleanup of the listener effect: every function in unlistenRefs is
\* called and the list is emptied.
Cleanup(i) ==
    /\ listeners' = listeners \ {<<i, unlistenRefs[i][n]>> : n \in 1..Len(unlistenRefs[i])}
    /\ released' = released \cup {<<i, unlistenRefs[i][n]>> : n \in 1..Len(unlistenRefs[i])}
    /\ unlistenRefs' = [unlistenRefs EXCEPT ![i] = <<>>]
    /\ capturedMessagesRef' = [capturedMessagesRef EXCEPT ![i] =
            IF component[i] = Task THEN {} ELSE @]

\* The parent re-renders the instance with the tool result.
\* SubAgentChatViewer: the initial-message effect runs again, the listener
\* effect is cleaned up and its re-run returns early.  EnhancedTaskWidget:
\* the same for the listener effect, and the result effect clears the flag.
\* SubAgentSession: no dependency of an effect changed.  TaskWithLiveSession:
\* the result effect clears the flag.
SupplyResult(i, r) ==
    /\ mounted[i] = "mounted"
    /\ ~Truthy(props[i].result)
    /\ props' = [props EXCEPT ![i].result = r]
    /\ completed' = [completed EXCEPT ![i] = TRUE]
    /\ CASE component[i] = Viewer ->
              /\ subAgentMessages' = [subAgentMessages EXCEPT ![i] = InitialMessages(props'[i])]
              /\ isSubAgentActive' = [isSubAgentActive EXCEPT ![i] = InitialActive(props'[i], @)]
              /\ Cleanup(i)
         [] component[i] = Widget ->
              /\ isSubAgentActive' = [isSubAgentActive EXCEPT ![i] = FALSE]
              /\ Cleanup(i)
              /\ UNCHANGED subAgentMessages
         [] component[i] = Session ->
              UNCHANGED <<subAgentMessages, isSubAgentActive, listeners, released,
                          unlistenRefs, capturedMessagesRef>>
         [] component[i] = Task ->
              /\ isSubAgentActive' = [isSubAgentActive EXCEPT ![i] = FALSE]
              /\ UNCHANGED <<subAgentMessages, listeners, released, unlistenRefs,
                             capturedMessagesRef>>
    /\ UNCHANGED <<textVars, component, openedWith, mounted, processedEvents, widgetVars,
                   liveMessages, isMountedRef, effectDeps, setupPc, lateEvents, lastHandled,
                   now, nEvents>>

\* The parent re-renders a SubAgentChatViewer with another description: only
\* the initial-message effect runs again.
ChangeDescription(i, d) ==
    /\ mounted[i] = "mounted"
    /\ component[i] = Viewer
    /\ d # props[i].description
    /\ props' = [props EXCEPT ![i].description = d]
    /\ subAgentMessages' = [subAgentMessages EXCEPT ![i] = InitialMessages(props'[i])]
    /\ isSubAgentActive' = [isSubAgentActive EXCEPT ![i] = InitialActive(props'[i], @)]
    /\ UNCHANGED <<textVars, component, openedWith, mounted, processedEvents, unlistenRefs,
                   widgetVars, sessionVars, setupPc, completed, lateEvents, lastHandled,
                   listeners, released, now, nEvents>>

\* A SubAgentSession or TaskWithLiveSession re-renders after isSubAgentActive
\* changed: the listener effect is cleaned up, and its re-run returns early
\* since the flag is off.
RunEffect(i) ==
    /\ mounted[i] = "mounted"
    /\ component[i] \in {Session, Task}
    /\ effectDeps[i] # isSubAgentActive[i]
    /\ effectDeps' = [effectDeps EXCEPT ![i] = isSubAgentActive[i]]
    /\ Cleanup(i)
    /\ UNCHANGED <<textVars, component, props, openedWith, mounted, isSubAgentActive,
                   viewerVars, widgetVars, liveMessages, isMountedRef, setupPc,
                   completed, lateEvents, lastHandled, now, nEvents>>

\* The parent re-renders a TaskWithLiveSession with another description, at
\* a moment when no listen() call of it is pending: the cleanup of the
\* listener effect runs, if its last run returned one, and the effect runs
\* again, calling setupListeners unless it returns early.
ChangeTaskDescription(i, d) ==
    /\ mounted[i] = "mounted"
    /\ component[i] = Task
    /\ d # props[i].description
    /\ setupPc[i] \notin 1..Listens(i)
    /\ props' = [props EXCEPT ![i].description = d]
    /\ IF TaskEffectRuns(props[i], effectDeps[i]) THEN Cleanup(i)
       ELSE UNCHANGED <<listeners, released, unlistenRefs, capturedMessagesRef>>
    /\ effectDeps' = [effectDeps EXCEPT ![i] = isSubAgentActive[i]]
    /\ setupPc' = [setupPc EXCEPT ![i] =
            IF TaskEffectRuns(props'[i], isSubAgentActive[i]) THEN 1 ELSE 0]
    /\ UNCHANGED <<textVars, component, openedWith, mounted, isSubAgentActive, viewerVars,
                   widgetVars, liveMessages, isMountedRef, completed, lateEvents,
                   lastHandled, now, nEvents>>

\* The last run of the listener effect returned a cleanup function: it did
\* not return early.
EffectHasCleanup(i) ==
    CASE component[i] = Viewer -> ViewerEffectRuns(props[i])
      [] component[i] = Widget -> WidgetEffectRuns(props[i])
      [] component[i] = Session -> SessionEffectRuns(props[i], effectDeps[i])
      [] component[i] = Task -> TaskEffectRuns(props[i], effectDeps[i])

\* The instance unmounts: the cleanup of the listener effect runs, if its
\* last run returned one, and that of the isMountedRef effect of a
\* SubAgentSession.
Unmount(i) ==
    /\ mounted[i] = "mounted"
    /\ mounted' = [mounted EXCEPT ![i] = "unmounted"]
    /\ isMountedRef' = [isMountedRef EXCEPT ![i] = FALSE]
    /\ IF EffectHasCleanup(i) THEN Cleanup(i)
       ELSE UNCHANGED <<listeners, released, unlistenRefs, capturedMessagesRef>>
    /\ UNCHANGED <<textVars, component, props, openedWith, isSubAgentActive, viewerVars,
                   widgetVars, liveMessages, effectDeps, setupPc, completed,
                   lateEvents, lastHandled, now, nEvents>>

Tick ==
    /\ now < MaxClock
    /\ now' = now + 1
    /\ UNCHANGED <<textVars, component, props, openedWith, mounted, isSubAgentActive,
                   viewerVars, widgetVars, sessionVars, unlistenRefs, setupPc,
                   completed, lateEvents, lastHandled, listeners, released, nEvents>>

(***************************************************************************)
(* The transport: an event published on a topic is handed to every live    *)
(* registration for that topic.                                            *)
(***************************************************************************)
Receives(i, k, e) == <<i, k>> \in listeners /\ TopicOf(i, k) = e.topic

Handler(i, k, v, e, seq) ==
    CASE component[i] = Viewer -> ViewerHandler(k, v, e, seq, props[i].toolId)
      [] component[i] = Widget -> WidgetHandler(k, v, e, seq, props[i].toolId)
      [] component[i] = Session ->
            SessionHandler(k, v, e, seq, ToStr(extractSessionId(props[i])))
      [] component[i] = Task -> taskOutputHandler(v, e, seq, props[i])

\* The view of instance i after event e, the seq-th published, was handed to
\* its handler.
AfterEvent(i, e, seq) ==
    IF \E k \in 1..Listens(i) : Receives(i, k, e)
    THEN Handler(i, CHOOSE k \in 1..Listens(i) : Receives(i, k, e), View(i), e, seq)
    ELSE View(i)

Publish(e) ==
    /\ nEvents' = nEvents + 1
    /\ isSubAgentActive' = [i \in Instances |-> AfterEvent(i, e, nEvents + 1).active]
    /\ subAgentMessages' = [i \in Instances |-> AfterEvent(i, e, nEvents + 1).msgs]
    /\ processedEvents' = [i \in Instances |-> AfterEvent(i, e, nEvents + 1).processed]
    /\ completed' = [i \in Instances |-> AfterEvent(i, e, nEvents + 1).completed]
    /\ subAgentOutput' = [i \in Instances |-> AfterEvent(i, e, nEvents + 1).output]
    /\ subAgentStatus' = [i \in Instances |-> AfterEvent(i, e, nEvents + 1).status]
    /\ liveMessages' = [i \in Instances |-> AfterEvent(i, e, nEvents + 1).live]
    /\ capturedMessagesRef' = [i \in Instances |-> AfterEvent(i, e, nEvents + 1).captured]
    /\ lateEvents' = [i \in Instances |->
            IF mounted[i] = "unmounted" /\ \E k \in 1..Listens(i) : Receives(i, k, e)
            THEN lateEvents[i] + 1 ELSE lateEvents[i]]
    /\ lastHandled' = [i \in Instances |->
            IF \E k \in 1..Listens(i) : Receives(i, k, e)
            THEN [event |-> e, seq |-> nEvents + 1] ELSE lastHandled[i]]
    /\ UNCHANGED <<textVars, component, props, openedWith, mounted, unlistenRefs,
                   isMountedRef, effectDeps, setupPc, listeners, released, now>>

Emit(e) == nEvents < MaxEvents /\ Publish(e)

(***************************************************************************)
(* The events published to a SubAgentChatViewer.                           *)
(***************************************************************************)
Event(topic, data) == [topic |-> topic, data |-> data]

ToolIdFields == {Str(t) : t \in ToolIds}
Contents == {Str("step 1"), Str("step 2")}
Timestamps == {Undefined, Str("T"), Str(toISOString(0)), Str(toISOString(TickMs))}

MessageData(tool_id, m_type, m_message, m_timestamp) ==
    [NoData EXCEPT !.tool_id = tool_id, !.type = Str("subagent_message"),
                   !.message = TRUE, !.m_type = m_type, !.m_message = m_message,
                   !.m_timestamp = m_timestamp]

DetectEvents(P) ==
    {Event(ViewerTopic(1, P), [NoData EXCEPT !.subagent_pid = Str("4242")])}
OutputEvents(P) ==
    {Event(ViewerTopic(2, P), [NoData EXCEPT !.tool_id = t, !.output = Str("out")]) :
        t \in ToolIdFields}
StartEvents(P) ==
    {Event(ViewerTopic(3, P), [NoData EXCEPT !.tool_id = t, !.description = Str("d1")]) :
        t \in ToolIdFields}
MessageEvents(P) ==
    {Event(ViewerTopic(4, P), MessageData(Str("t1"), Str("assistant"), c, ts)) :
        c \in Contents, ts \in Timestamps}
    \cup {Event(ViewerTopic(4, P), MessageData(Str("t2"), Str("assistant"), Str("step 1"), Undefined))}
CompleteEvents(P) ==
    {Event(ViewerTopic(5, P), [NoData EXCEPT !.tool_id = t]) : t \in ToolIdFields}
ActualEvents ==
    {Event(ViewerTopic(6, ""), [NoData EXCEPT !.tool_id = Str("t1"), !.description = Str("d1")]),
     Event(ViewerTopic(8, ""), [NoData EXCEPT !.tool_id = Str("t1")])}
    \cup {Event(ViewerTopic(7, ""), MessageData(Str("t1"), Str("assistant"), Str("step 1"), Str("T")))}

\* the events of one tool, and of the messages those that differ in their
\* timestamp field only
ViewerEvents ==
    DetectEvents(ParentSessionId)
    \cup {e \in OutputEvents(ParentSessionId) \cup StartEvents(ParentSessionId)
                \cup CompleteEvents(ParentSessionId) : e.data.tool_id = Str("t1")}
    \cup {e \in MessageEvents(ParentSessionId) :
            e.data.tool_id = Str("t1") /\ e.data.m_message = Str("step 1")}
    \cup ActualEvents

\* One SubAgentChatViewer, constructed before the tool result is known.
Init ==
    Mounted({1}, [i \in Instances |-> Viewer],
            [i \in Instances |-> Props(i, "d1", NoResult, Undefined)]) /\ TextIdle

Next ==
    \/ \E i \in Instances : ListenResolved(i)
    \/ \E i \in Instances, d \in Descriptions : ChangeDescription(i, d)
    \/ Tick
    \/ \E e \in ViewerEvents : Emit(e)

Spec == Init /\ [][Next]_vars

(***************************************************************************)
(* The subscriptions of one SubAgentChatViewer or EnhancedTaskWidget,      *)
(* constructed with or without a result.                                   *)
(***************************************************************************)
SubscriptionEvents ==
    DetectEvents(ParentSessionId)
    \cup {e \in StartEvents(ParentSessionId) \cup CompleteEvents(ParentSessionId) :
            e.data.tool_id = Str("t1")}
    \cup {Event(WidgetTopic(2, ParentSessionId),
                [NoData EXCEPT !.subagent_id = Str("t1"), !.output = Str("out")])}

InitSubscriptions ==
    \E c \in {Viewer, Widget}, r \in {NoResult} \cup Results :
        Mounted({1}, [i \in Instances |-> c],
                [i \in Instances |-> Props(i, "d1", r, Undefined)]) /\ TextIdle

NextSubscriptions ==
    \/ \E i \in Instances : ListenResolved(i)
    \/ \E i \in Instances, r \in Results : SupplyResult(i, r)
    \/ \E i \in Instances, d \in Descriptions : ChangeDescription(i, d)
    \/ \E i \in Instances : Unmount(i)
    \/ \E e \in SubscriptionEvents : Emit(e)

SpecSubscriptions == InitSubscriptions /\ [][NextSubscriptions]_vars

(***************************************************************************)
(* The scenario: a SubAgentChatViewer is opened without a result; once its *)
(* listeners are set up, a start event, a message "step 1", a message      *)
(* "step 2" and a complete event are delivered, all for the tracked tool.  *)
(***************************************************************************)
ScenarioEvents(n) ==
    CASE n = 1 -> {e \in StartEvents(ParentSessionId) : e.data.tool_id = Str("t1")}
      [] n = 2 -> {e \in MessageEvents(ParentSessionId) :
                     e.data.tool_id = Str("t1") /\ e.data.m_message = Str("step 1")}
      [] n = 3 -> {e \in MessageEvents(ParentSessionId) :
                     e.data.tool_id = Str("t1") /\ e.data.m_message = Str("step 2")}
      [] n = 4 -> {e \in CompleteEvents(ParentSessionId) : e.data.tool_id = Str("t1")}
      [] OTHER -> {}

ScenarioStep ==
    /\ setupPc[1] > Listens(1)
    /\ \E e \in ScenarioEvents(nEvents + 1) : Publish(e)

NextScenario ==
    \/ ListenResolved(1)
    \/ Tick
    \/ ScenarioStep

SpecScenario == Init /\ [][NextScenario]_vars

(***************************************************************************)
(* Two SubAgentChatViewer instances for distinct toolIds under the same    *)
(* parentSessionId, fed the same events.                                   *)
(***************************************************************************)
PairEvents ==
    DetectEvents(ParentSessionId) \cup OutputEvents(ParentSessionId)
    \cup StartEvents(ParentSessionId) \cup CompleteEvents(ParentSessionId)
    \cup {e \in MessageEvents(ParentSessionId) :
            e.data.m_message = Str("step 1") /\ e.data.m_timestamp = Undefined}

InitPair ==
    Mounted(Instances, [i \in Instances |-> Viewer],
            [i \in Instances |-> Props(i, "d1", NoResult, Undefined)]) /\ TextIdle

NextPair ==
    \/ \E i \in Instances : ListenResolved(i)
    \/ \E e \in PairEvents : Emit(e)

SpecPair == InitPair /\ [][NextPair]_vars

(***************************************************************************)
(* One SubAgentSession for the session s1.                                 *)
(***************************************************************************)
SessionId == "s1"

TextEvent(topic, text) == Event(topic, [NoData EXCEPT !.text = text])

SessionEvents ==
    {TextEvent(SessionTopic(1, SessionId), t) :
        t \in {"{\"type\":\"assistant\",\"session_id\":\"s1\"}", "not json"}}
    \cup {TextEvent(SessionTopic(2, SessionId), "true")}
    \cup {TextEvent(SessionTopic(3, SessionId), "boom")}
    \cup {TextEvent(SessionTopic(4, SessionId), t) :
            t \in {"{\"type\":\"assistant\",\"session_id\":\"s1\"}",
                   "{\"tool\":\"Task\"}", "{\"type\":\"user\"}"}}

InitSession ==
    \E r \in {NoResult, Str("done")} :
        Mounted({1}, [i \in Instances |-> Session],
                [i \in Instances |-> Props(i, "d1", r, Str(SessionId))]) /\ TextIdle

NextSession ==
    \/ \E i \in Instances : ListenResolved(i)
    \/ \E i \in Instances : ListenFailed(i)
    \/ \E i \in Instances : RunEffect(i)
    \/ \E i \in Instances : SupplyResult(i, Str("done"))
    \/ \E i \in Instances : Unmount(i)
    \/ Tick
    \/ \E e \in SessionEvents : Emit(e)

SpecSession == InitSession /\ [][NextSession]_vars

(***************************************************************************)
(* The handlers of one SubAgentChatViewer whose listeners are all set up:  *)
(* every event is handed to a handler.  The messages are of every shape    *)
(* the message handler distinguishes.                                      *)
(***************************************************************************)
ShapeData(m_type, m_message) ==
    [NoData EXCEPT !.tool_id = Str("t1"), !.type = Str("subagent_message"),
                   !.message = TRUE, !.m_type = m_type, !.m_message = m_message]

MessageShapes ==
    {ShapeData(Str("assistant"), Str("step 1")),     \* inner message a string
     ShapeData(Str("assistant"), Str("step 2")),
     ShapeData(Str("system"), Str("step 1")),
     ShapeData(Undefined, TextContent(Str("step 1"))), \* inner message an object
     ShapeData(Str("assistant"), Undefined),          \* no inner message
     [NoData EXCEPT !.tool_id = Str("t1"),            \* no message field
                    !.type = Str("subagent_message")]}

HandlerEvents ==
    {e \in StartEvents(ParentSessionId) \cup CompleteEvents(ParentSessionId) :
        e.data.tool_id = Str("t1")}
    \cup {Event(ViewerTopic(4, ParentSessionId), d) : d \in MessageShapes}

\* the payloads marked as thinking, of each shape, on both message topics
ThinkingEvents ==
    {Event(ViewerTopic(4, ParentSessionId),
           [d EXCEPT !.type = Str("subagent_thinking"), !.m_subtype = Str("progress")]) :
        d \in {ShapeData(Str("assistant"), Str("step 1")),
               ShapeData(Undefined, TextContent(Str("step 1"))),
               ShapeData(Str("system"), Undefined)}}
    \cup {Event(ViewerTopic(7, ParentSessionId),
                [d EXCEPT !.type = Str("subagent_thinking"),
                          !.m_subtype = Str("progress")]) :
            d \in {ShapeData(Str("assistant"), Str("step 1")),
                   ShapeData(Undefined, TextContent(Str("step 1")))}}

\* an event published once setupListeners has returned
EmitReady(e) ==
    /\ \A i \in Instances : mounted[i] = "mounted" => setupPc[i] > Listens(i)
    /\ Emit(e)

NextHandlers ==
    \/ ListenResolved(1)
    \/ Tick
    \/ \E e \in HandlerEvents \cup ThinkingEvents : EmitReady(e)

SpecHandlers == Init /\ [][NextHandlers]_vars

(***************************************************************************)
(* Two instances, each a SubAgentSession or a TaskWithLiveSession, that    *)
(* both subscribe to the generic topic claude-output.                      *)
(***************************************************************************)
GenericEvents ==
    {TextEvent("claude-output", t) :
        t \in {"{\"tool\":\"Task\"}", "{\"session_id\":\"s1\",\"tool\":\"Task\"}",
               "Task started"}}

InitLivePair ==
    \E c1, c2 \in {Session, Task} :
        Mounted(Instances, [i \in Instances |-> IF i = 1 THEN c1 ELSE c2],
                [i \in Instances |-> Props(i, "d1", NoResult, Str(SessionId))]) /\ TextIdle

NextLivePair ==
    \/ \E i \in Instances : ListenResolved(i)
    \/ \E i \in Instances : Unmount(i)
    \/ \E e \in GenericEvents : Emit(e)

SpecLivePair == InitLivePair /\ [][NextLivePair]_vars

(***************************************************************************)
(* One TaskWithLiveSession, opened with or without a result, through its   *)
(* whole life.                                                             *)
(***************************************************************************)
\* Two payloads that match isSubAgentMessage and differ in their 101st
\* character only: LongPrefix has 100 characters.
LongPrefix ==
    "Task 01234567890123456789012345678901234567890123456789012345678901234567890123456789012345678901234"

TaskEvents ==
    GenericEvents
    \cup {TextEvent("claude-output", LongPrefix \o t) : t \in {"a", "b"}}

InitTask ==
    \E r \in {NoResult} \cup Results :
        Mounted({1}, [i \in Instances |-> Task],
                [i \in Instances |-> Props(i, "d1", r, Undefined)]) /\ TextIdle

NextTask ==
    \/ \E i \in Instances : ListenResolved(i)
    \/ \E i \in Instances : ListenFailed(i)
    \/ \E i \in Instances : RunEffect(i)
    \/ \E i \in Instances : \E r \in Results : SupplyResult(i, r)
    \/ \E i \in Instances : \E d \in Descriptions : ChangeTaskDescription(i, d)
    \/ \E i \in Instances : Unmount(i)
    \/ \E e \in TaskEvents : Emit(e)

SpecTask == InitTask /\ [][NextTask]_vars

(***************************************************************************)
(* One EnhancedTaskWidget, opened without a result.  The output events     *)
(* name the tracked tool t1, or the tool t10, in subagent_id, or the       *)
(* tracked tool in tool_id alone, or another tool.                         *)
(***************************************************************************)
WidgetOutputEvents ==
    {Event(WidgetTopic(2, ParentSessionId),
           [NoData EXCEPT !.tool_id = t, !.subagent_id = s, !.output = Str("out")]) :
        t \in {Undefined, Str("t1")}, s \in {Undefined, Str("t1"), Str("t10"), Str("t2")}}

WidgetEvents ==
    {e \in StartEvents(ParentSessionId) \cup CompleteEvents(ParentSessionId) :
        e.data.tool_id = Str("t1")}
    \cup WidgetOutputEvents

InitWidget ==
    Mounted({1}, [i \in Instances |-> Widget],
            [i \in Instances |-> Props(i, "d1", NoResult, Undefined)]) /\ TextIdle

NextWidget ==
    \/ \E i \in Instances : ListenResolved(i)
    \/ \E i \in Instances : SupplyResult(i, Str("done"))
    \/ \E i \in Instances : Unmount(i)
    \/ \E e \in WidgetEvents : Emit(e)

SpecWidget == InitWidget /\ [][NextWidget]_vars

(***************************************************************************)
(* lib/textUtils.ts.  A string is the sequence of its characters.          *)
(***************************************************************************)
MaxTextLen == 5
MaxPathLen == 4
MaxCalls == 2

NL == "\n"
TextChars == {"a", " ", "|", NL}
Texts == UNION {[1..n -> TextChars] : n \in 0..MaxTextLen}

\* text.replace(/\|/g, '\n')
RECURSIVE ReplacePipes(_)
ReplacePipes(t) ==
    IF t = <<>> THEN <<>>
    ELSE <<IF Head(t) = "|" THEN NL ELSE Head(t)>> \o ReplacePipes(Tail(t))

convertPipesToNewlines(t) == IF t = <<>> THEN <<>> ELSE ReplacePipes(t)

RECURSIVE SkipNewlines(_)
SkipNewlines(t) ==
    IF t # <<>> /\ Head(t) = NL THEN SkipNewlines(Tail(t)) ELSE t

\* processedText.replace(/\n\n\n+/g, '\n\n'): from the left, each run of
\* three or more newlines becomes two
RECURSIVE ReduceNewlines(_)
ReduceNewlines(t) ==
    IF Len(t) < 3 THEN t
    ELSE IF t[1] = NL /\ t[2] = NL /\ t[3] = NL
    THEN <<NL, NL>> \o ReduceNewlines(SkipNewlines(t))
    ELSE <<Head(t)>> \o ReduceNewlines(Tail(t))

IsWhitespace(c) == c \in {" ", NL}

RECURSIVE TrimStart(_)
TrimStart(t) ==
    IF t # <<>> /\ IsWhitespace(Head(t)) THEN TrimStart(Tail(t)) ELSE t

RECURSIVE TrimEnd(_)
TrimEnd(t) ==
    IF t # <<>> /\ IsWhitespace(t[Len(t)]) THEN TrimEnd(SubSeq(t, 1, Len(t) - 1)) ELSE t

\* String.prototype.trim
trim(t) == TrimEnd(TrimStart(t))

preprocessTextForMarkdown_trimFirst(t) ==
    IF t = <<>> THEN <<>>
    ELSE ReduceNewlines(convertPipesToNewlines(trim(t)))

preprocessTextForMarkdown(t) ==
    IF t = <<>> THEN <<>>
    ELSE trim(ReduceNewlines(convertPipesToNewlines(t)))

PathChars == {"a", "b", "/", "\\"}
Paths == UNION {[1..n -> PathChars] : n \in 0..MaxPathLen}

IsSeparator(c) == c \in {"/", "\\"}

\* filePath.split(/[/\\]/)
RECURSIVE split(_)
split(path) ==
    IF \A k \in 1..Len(path) : ~IsSeparator(path[k]) THEN <<path>>
    ELSE LET k == CHOOSE k \in 1..Len(path) :
                    IsSeparator(path[k]) /\ \A j \in 1..(k - 1) : ~IsSeparator(path[j])
         IN <<SubSeq(path, 1, k - 1)>> \o split(SubSeq(path, k + 1, Len(path)))

getFileName(path) ==
    IF path = <<>> THEN <<>>
    ELSE LET parts == split(path)
             name == parts[Len(parts)]
         IN IF name # <<>> THEN name ELSE path

getParentAndFileName(path) ==
    IF path = <<>> THEN <<>>
    ELSE LET parts == split(path)
         IN IF Len(parts) <= 1 THEN path
            ELSE IF Len(parts) = 2 THEN path
            ELSE parts[Len(parts) - 1] \o <<"/">> \o parts[Len(parts)]

\* no component is mounted
NoComponents ==
    Mounted({}, [i \in Instances |-> Viewer],
            [i \in Instances |-> Props(i, "d1", NoResult, Undefined)])

componentVars ==
    <<component, props, openedWith, mounted, isSubAgentActive, viewerVars,
      widgetVars, sessionVars, unlistenRefs, setupPc, completed, lateEvents,
      lastHandled, listeners, released, now, nEvents>>

(***************************************************************************)
(* preprocessTextForMarkdown, called on a text and then on what it         *)
(* returned.                                                               *)
(***************************************************************************)
InitText ==
    /\ NoComponents
    /\ textArg \in Texts
    /\ processedText = textArg
    /\ calls = 0
    /\ filePath = <<>> /\ fileName = <<>> /\ parentAndFileName = <<>>

Preprocess ==
    /\ calls < MaxCalls
    /\ processedText' = preprocessTextForMarkdown(processedText)
    /\ calls' = calls + 1
    /\ UNCHANGED <<componentVars, textArg, filePath, fileName, parentAndFileName>>

NextText == Preprocess

SpecText == InitText /\ [][NextText]_vars

(***************************************************************************)
(* getFileName and getParentAndFileName, called on the same path.          *)
(***************************************************************************)
InitPath ==
    /\ NoComponents
    /\ filePath \in Paths
    /\ fileName = <<>> /\ parentAndFileName = <<>>
    /\ calls = 0
    /\ textArg = <<>> /\ processedText = <<>>

ShowPath ==
    /\ calls = 0
    /\ fileName' = getFileName(filePath)
    /\ parentAndFileName' = getParentAndFileName(filePath)
    /\ calls' = 2
    /\ UNCHANGED <<componentVars, textArg, processedText, filePath>>

NextPath == ShowPath

SpecPath == InitPath /\ [][NextPath]_vars

(***************************************************************************)
(* Properties.                                                             *)
(***************************************************************************)
IsPrefix(a, b) == Len(a) <= Len(b) /\ \A n \in 1..Len(a) : a[n] = b[n]

MessageTopics == {ViewerTopic(4, ParentSessionId), ViewerTopic(7, ParentSessionId)}

\* C1: once an instance has completed (a complete event for its toolId was
\* accepted, or a result was supplied) and is inactive, no event delivered
\* to it sets isSubAgentActive back to true.
MonotonicLifecycle ==
    [][\A i \in Instances :
          (nEvents' = nEvents + 1 /\ completed[i] /\ ~isSubAgentActive[i])
          => ~isSubAgentActive'[i]]_vars

\* C2: the transcript never holds two entries made from the same message
\* event for the tracked toolId, whatever its timestamp field is.
IdempotentDedup ==
    \A i \in Instances : \A m, n \in 1..Len(subAgentMessages[i]) :
        (/\ m < n
         /\ subAgentMessages[i][m].src.topic \in MessageTopics
         /\ subAgentMessages[i][m].src.data.tool_id = Str(props[i].toolId)
         /\ subAgentMessages[i][n].src.topic \in MessageTopics)
        => subAgentMessages[i][m].src.data # subAgentMessages[i][n].src.data

\* C3: the entries of a transcript stand in the order in which the events
\* they were made from were delivered, whatever timestamps they carry.
OrderPreservation ==
    \A i \in Instances : \A m, n \in 1..Len(subAgentMessages[i]) :
        m < n => subAgentMessages[i][m].seq < subAgentMessages[i][n].seq

\* C3 happens: an entry made from an event with a later timestamp stands
\* before an entry made from an event with an earlier one.
OrderPreservationWitness ==
    \E m, n \in 1..Len(subAgentMessages[1]) :
        /\ m < n
        /\ subAgentMessages[1][m].src.data.m_timestamp = Str(toISOString(TickMs))
        /\ subAgentMessages[1][n].src.data.m_timestamp = Str(toISOString(0))
        /\ subAgentMessages[1][m].timestamp = Str(toISOString(TickMs))
        /\ subAgentMessages[1][n].timestamp = Str(toISOString(0))

\* C4: after the start event, the messages "step 1" and "step 2" and the
\* complete event of the scenario were delivered, the instance is inactive
\* and its transcript is exactly the start entry, the entry of "step 1", the
\* entry of "step 2" and the completion entry, in that order.
ScenarioTranscript ==
    nEvents = 4 =>
        /\ ~isSubAgentActive[1]
        /\ Len(subAgentMessages[1]) = 4
        /\ subAgentMessages[1][1].src \in ScenarioEvents(1)
        /\ subAgentMessages[1][2].src \in ScenarioEvents(2)
        /\ subAgentMessages[1][3].src \in ScenarioEvents(3)
        /\ subAgentMessages[1][4].src \in ScenarioEvents(4)

\* C5: a SubAgentChatViewer or EnhancedTaskWidget constructed with a result
\* never calls listen(): setupListeners is never entered, no registration of
\* the instance is or was live, and it holds no unlisten function.
TerminalShortCircuit ==
    \A i \in Instances :
        (/\ mounted[i] # "none"
         /\ component[i] \in {Viewer, Widget}
         /\ Truthy(openedWith[i]))
        => /\ setupPc[i] = 0
           /\ unlistenRefs[i] = <<>>
           /\ \A k \in 1..Listens(i) : <<i, k>> \notin listeners \cup released

\* C5 happens: events were published while an instance constructed with a
\* result was mounted.
TerminalShortCircuitWitness ==
    /\ mounted[1] = "mounted"
    /\ Truthy(openedWith[1])
    /\ nEvents = MaxEvents
    /\ setupPc[1] = 0

\* C6: a SubAgentChatViewer constructed with a result, of whatever shape, is
\* inactive and its transcript is exactly one summary entry.
ImmediateSummary ==
    \A i \in Instances :
        (/\ mounted[i] # "none"
         /\ component[i] = Viewer
         /\ Truthy(openedWith[i]))
        => /\ ~isSubAgentActive[i]
           /\ Len(subAgentMessages[i]) = 1
           /\ subAgentMessages[i][1].type = Str("system")
           /\ subAgentMessages[i][1].subtype = Str("success")
           /\ subAgentMessages[i][1].result =
                  Str("Sub-agent task completed: " \o props[i].description)
           /\ subAgentMessages[i][1].src = NoEvent

\* C6 happens: a SubAgentChatViewer constructed with an object that has none
\* of content, output and text was re-rendered with another description.
ImmediateSummaryWitness ==
    /\ component[1] = Viewer
    /\ openedWith[1] = Obj("session_id", "s1")
    /\ props[1].description = "d2"
    /\ nEvents > 0
    /\ ~isSubAgentActive[1]
    /\ Len(subAgentMessages[1]) = 1

\* C7: an event that carries the tool_id of another instance changes neither
\* subAgentMessages nor isSubAgentActive of this instance.
CorrelationIsolation ==
    [][\A i \in Instances : \A e \in PairEvents :
          (/\ Truthy(e.data.tool_id)
           /\ e.data.tool_id # Str(props[i].toolId)
           /\ Emit(e))
          => /\ subAgentMessages'[i] = subAgentMessages[i]
             /\ isSubAgentActive'[i] = isSubAgentActive[i]]_vars

\* the cleanup of the run of the listener effect made at construction ran
CleanupHasRun(i) ==
    /\ ~Truthy(openedWith[i])
    /\ mounted[i] = "unmounted" \/ Truthy(props[i].result)

\* C8: once the cleanup of the listener effect of a SubAgentChatViewer has
\* run and every listen() call of setupListeners has resolved, no
\* registration made by that run is live: each was released.
SubscriptionRelease ==
    \A i \in Instances :
        (/\ component[i] = Viewer
         /\ CleanupHasRun(i)
         /\ setupPc[i] > Listens(i))
        => \A k \in 1..Listens(i) : <<i, k>> \in released /\ <<i, k>> \notin listeners

\* C9: no step changes liveMessages or isSubAgentActive of a SubAgentSession
\* that has unmounted, whatever event is handed to its handlers.
Cancellation ==
    [][\A i \in Instances :
          (component[i] = Session /\ mounted[i] = "unmounted")
          => /\ liveMessages'[i] = liveMessages[i]
             /\ isSubAgentActive'[i] = isSubAgentActive[i]]_vars

\* C9 happens: a SubAgentSession that had received a message unmounted, and
\* an event was then handed to one of its handlers.
CancellationWitness ==
    /\ component[1] = Session
    /\ mounted[1] = "unmounted"
    /\ Len(liveMessages[1]) >= 1
    /\ lateEvents[1] >= 1

\* the key the start and complete handlers keep in processedEvents
MarkerKey(e) ==
    (IF e.topic = ViewerTopic(3, ParentSessionId) THEN "start-" ELSE "complete-")
        \o ToStr(e.data.tool_id)

\* C11: a start or complete event for the tracked toolId whose key is in
\* processedEvents, that is one that was applied before, changes neither the
\* transcript nor the activity flag; and no step removes a key.
HonoredOnce ==
    [][\A i \in Instances :
          /\ processedEvents[i] \subseteq processedEvents'[i]
          /\ \A e \in StartEvents(ParentSessionId) \cup CompleteEvents(ParentSessionId) :
                (/\ Emit(e)
                 /\ e.data.tool_id = Str(props[i].toolId)
                 /\ MarkerKey(e) \in processedEvents[i])
                => /\ subAgentMessages'[i] = subAgentMessages[i]
                   /\ isSubAgentActive'[i] = isSubAgentActive[i]]_vars

\* C11 happens: the start event that wrote the first entry of the transcript
\* was handed to the start handler again, and the entry is still the one of
\* the first delivery.
HonoredOnceWitness ==
    /\ Len(subAgentMessages[1]) >= 1
    /\ subAgentMessages[1][1].src \in StartEvents(ParentSessionId)
    /\ lastHandled[1].event = subAgentMessages[1][1].src
    /\ lastHandled[1].seq > subAgentMessages[1][1].seq

\* C12: a SubAgentSession whose transcript holds the entry of an accepted
\* claude-error event is not active.
ErrorIsTerminal ==
    \A i \in Instances :
        (/\ component[i] = Session
         /\ \E n \in 1..Len(liveMessages[i]) :
                liveMessages[i][n].src.topic = SessionTopic(3, SessionId))
        => ~isSubAgentActive[i]

\* the transcript holds an entry made from a message event
HasMessageEntry(i) ==
    \E n \in 1..Len(subAgentMessages[i]) : subAgentMessages[i][n].src.topic \in MessageTopics

\* C13: every payload handed to the message handler of a SubAgentChatViewer
\* that passes the tool-id filter, whatever its shape, produces an entry of
\* the transcript (the transcript holds no message entry yet that it could
\* duplicate).
TotalNormalization ==
    [][\A e \in HandlerEvents :
          (/\ e.topic = ViewerTopic(4, ParentSessionId)
           /\ Emit(e)
           /\ <<1, 4>> \in listeners
           /\ ~HasMessageEntry(1))
          => \E n \in 1..Len(subAgentMessages'[1]) :
                /\ subAgentMessages'[1][n].src = e
                /\ subAgentMessages'[1][n].seq = nEvents']_vars

\* the listen() call of an instance that subscribes to claude-output
GenericListen(j) == IF component[j] = Task THEN 1 ELSE 4

\* the generic handler of instance j takes the payload as one of its own
GenericAccepts(j, text) ==
    IF component[j] = Task THEN isSubAgentMessage(text, props[j])
    ELSE /\ Includes(text, ToStr(extractSessionId(props[j]))) \/ Includes(text, "Task")
         /\ IsJSON(text)

\* C14: the teardown of one instance leaves the registrations of the other
\* as they were; and once an instance is torn down, the other, while it is
\* mounted and subscribed to claude-output, appends every event of the topic
\* that it accepts and does not hold yet.
IndependentUnsubscribe ==
    [][\A i, j \in Instances : i # j =>
          /\ (mounted[i] = "mounted" /\ mounted'[i] = "unmounted")
             => /\ {l \in listeners' : l[1] = j} = {l \in listeners : l[1] = j}
                /\ {l \in released' : l[1] = j} = {l \in released : l[1] = j}
                /\ unlistenRefs'[j] = unlistenRefs[j]
          /\ \A e \in GenericEvents :
                (/\ mounted[i] = "unmounted"
                 /\ mounted[j] = "mounted"
                 /\ <<j, GenericListen(j)>> \in listeners
                 /\ Emit(e)
                 /\ GenericAccepts(j, e.data.text)
                 /\ \A n \in 1..Len(liveMessages[j]) : liveMessages[j][n].src # e)
                => /\ Len(liveMessages'[j]) = Len(liveMessages[j]) + 1
                   /\ liveMessages'[j][Len(liveMessages'[j])].src = e
                   /\ IsPrefix(liveMessages[j], liveMessages'[j])]_vars

\* C14 happens: both instances were subscribed; the first took the first
\* event, was torn down and its registrations released; the second then
\* took a second event, which the first would have accepted.
IndependentUnsubscribeWitness ==
    /\ mounted[1] = "unmounted" /\ mounted[2] = "mounted"
    /\ <<1, GenericListen(1)>> \in released
    /\ <<2, GenericListen(2)>> \in listeners
    /\ Len(liveMessages[1]) = 1 /\ liveMessages[1][1].seq = 1
    /\ Len(liveMessages[2]) = 2 /\ liveMessages[2][2].seq = 2
    /\ liveMessages[2][2].src.data.text = "{\"tool\":\"Task\"}"

\* C15: once a SubAgentSession whose setupListeners ended by the failure of
\* a listen() call is torn down, none of the registrations its earlier
\* listen() calls acquired is live.
PartialAcquisitionCleanup ==
    \A i \in Instances :
        (/\ component[i] = Session
         /\ mounted[i] = "unmounted"
         /\ setupPc[i] < 0)
        => \A k \in 1..Listens(i) : <<i, k>> \notin listeners

\* C16: a message event accepted by the message handler is appended unless
\* the transcript holds an entry with the same content, however close the
\* timestamps are.
DedupOnlyDuplicates ==
    [][\A e \in HandlerEvents :
          (/\ e.topic = ViewerTopic(4, ParentSessionId)
           /\ e.data.message
           /\ Emit(e)
           /\ <<1, 4>> \in listeners
           /\ \A n \in 1..Len(subAgentMessages[1]) :
                 subAgentMessages[1][n].message
                     # ConvertMessage(e.data, nEvents + 1, e).message)
          => /\ Len(subAgentMessages'[1]) = Len(subAgentMessages[1]) + 1
             /\ subAgentMessages'[1][Len(subAgentMessages'[1])].src = e]_vars

\* C17: liveMessages of a SubAgentSession never holds two entries made from
\* the same payload, one delivered on claude-output:{sessionId} and one on
\* claude-output.
OncePerPayload ==
    \A i \in Instances : \A m, n \in 1..Len(liveMessages[i]) :
        (/\ component[i] = Session
         /\ m < n
         /\ liveMessages[i][m].src.topic # liveMessages[i][n].src.topic
         /\ {liveMessages[i][m].src.topic, liveMessages[i][n].src.topic}
                = {SessionTopic(1, SessionId), SessionTopic(4, SessionId)})
        => liveMessages[i][m].src.data.text # liveMessages[i][n].src.data.text

\* C18: every entry of liveMessages of a SubAgentSession that was made from
\* an event on the generic topic claude-output has a payload that contains
\* the session id.
FallbackNonMatchesDropped ==
    \A i \in Instances : \A n \in 1..Len(liveMessages[i]) :
        (component[i] = Session /\ liveMessages[i][n].src.topic = SessionTopic(4, SessionId))
        => Includes(liveMessages[i][n].src.data.text, ToStr(extractSessionId(props[i])))

\* the topics parameterized by the parentSessionId of instance i
ParentTopics(i) == {ViewerTopic(k, ToStr(props[i].parentSessionId)) : k \in 1..5}

\* C19: an event on a topic that is not parameterized by the parentSessionId
\* of a SubAgentChatViewer changes neither its transcript nor its flag.
ParentTopicsOnly ==
    [][\A i \in Instances : \A e \in ViewerEvents :
          (Emit(e) /\ e.topic \notin ParentTopics(i))
          => /\ subAgentMessages'[i] = subAgentMessages[i]
             /\ isSubAgentActive'[i] = isSubAgentActive[i]]_vars

\* C20: an entry made by the message handler has the type of the payload's
\* message, assistant if it has none; it carries a string inner message as
\* its text and an object inner message unchanged.
NormalizerTable ==
    \A i \in Instances : \A n \in 1..Len(subAgentMessages[i]) :
        LET entry == subAgentMessages[i][n]
            data == entry.src.data
        IN entry.src.topic = ViewerTopic(4, ParentSessionId) =>
            /\ entry.type = IF data.m_type # Undefined THEN data.m_type
                            ELSE Str("assistant")
            /\ TypeOf(data.m_message) = "string"
                  => entry.message = <<"object", "content", "text", data.m_message[2]>>
            /\ TypeOf(data.m_message) = "object" => entry.message = data.m_message

\* C20 happens: the transcript holds the entry of a system message with a
\* string inner message and the entry of a message without type with an
\* object inner message.
NormalizerTableWitness ==
    \E m, n \in 1..Len(subAgentMessages[1]) :
        /\ subAgentMessages[1][m].src.data = ShapeData(Str("system"), Str("step 1"))
        /\ subAgentMessages[1][m].type = Str("system")
        /\ subAgentMessages[1][n].src.data = ShapeData(Undefined, TextContent(Str("step 1")))
        /\ subAgentMessages[1][n].type = Str("assistant")

\* event.payload as a whole, as an object
PayloadObject(data) ==
    <<"object", "tool_id", ToStr(data.tool_id), "type", ToStr(data.type),
      "message">> \o MessageObject(data)

\* C21: the entry the message handler makes from a payload whose message
\* object has no inner message has type system and carries the raw payload
\* (the payload as a whole, or its message object).
FallbackIsSystem ==
    \A i \in Instances : \A n \in 1..Len(subAgentMessages[i]) :
        LET entry == subAgentMessages[i][n]
        IN (/\ entry.src.topic = ViewerTopic(4, ParentSessionId)
            /\ entry.src.data.message
            /\ entry.src.data.m_message = Undefined)
           => /\ entry.type = Str("system")
              /\ entry.message \in {PayloadObject(entry.src.data),
                                     MessageObject(entry.src.data)}

\* C22: every entry made from a message payload whose type is
\* subagent_thinking has subtype thinking, on both message topics.
ThinkingMarker ==
    \A i \in Instances : \A n \in 1..Len(subAgentMessages[i]) :
        LET entry == subAgentMessages[i][n]
        IN (/\ entry.src.topic \in MessageTopics
            /\ entry.src.data.type = Str("subagent_thinking"))
           => entry.subtype = Str("thinking")

\* C22 happens: the transcript holds the entry of a thinking payload without
\* inner message and the entry of a thinking payload of the actual-session
\* topic, both of which carry another message.subtype.
ThinkingMarkerWitness ==
    \E m, n \in 1..Len(subAgentMessages[1]) :
        /\ subAgentMessages[1][m].src.topic = ViewerTopic(4, ParentSessionId)
        /\ subAgentMessages[1][m].src.data.type = Str("subagent_thinking")
        /\ subAgentMessages[1][m].src.data.m_message = Undefined
        /\ subAgentMessages[1][m].src.data.m_subtype = Str("progress")
        /\ subAgentMessages[1][n].src.topic = ViewerTopic(7, ParentSessionId)
        /\ subAgentMessages[1][n].src.data.type = Str("subagent_thinking")
        /\ subAgentMessages[1][n].src.data.m_subtype = Str("progress")

\* C23: an entry made by the message handler carries the timestamp of the
\* payload's message when that is present and parses as a date, and a
\* current time, which parses as a date, in every other case.
TimestampRule ==
    \A i \in Instances : \A n \in 1..Len(subAgentMessages[i]) :
        LET entry == subAgentMessages[i][n]
            ts == entry.src.data.m_timestamp
        IN entry.src.topic = ViewerTopic(4, ParentSessionId) =>
            IF ~DateGetTime(ts).nan THEN entry.timestamp = ts
            ELSE ~DateGetTime(entry.timestamp).nan

\* C24: once a complete event has ended the session of a viewer, an output
\* event, or a message event that passes the tool filter and is no duplicate,
\* handed to its live listener (the step's lastHandled event) still appends
\* one entry, made from that event, and isSubAgentActive stays false.
LateStragglers ==
    [][LET e == lastHandled'[1].event
       IN (/\ nEvents' = nEvents + 1 /\ lastHandled'[1].seq = nEvents'
           /\ completed[1] /\ ~isSubAgentActive[1]
           /\ \/ e.topic = ViewerTopic(2, ParentSessionId) /\ <<1, 2>> \in listeners
              \/ /\ e.topic = ViewerTopic(4, ParentSessionId) /\ <<1, 4>> \in listeners
                 /\ e.data.message
                 /\ ~Truthy(e.data.tool_id) \/ e.data.tool_id = Str(props[1].toolId)
                 /\ ~isDuplicate(subAgentMessages[1],
                                 ConvertMessage(e.data, nEvents', e)))
          => /\ Len(subAgentMessages'[1]) = Len(subAgentMessages[1]) + 1
             /\ IsPrefix(subAgentMessages[1], subAgentMessages'[1])
             /\ subAgentMessages'[1][Len(subAgentMessages'[1])].src = e
             /\ ~isSubAgentActive'[1]]_vars

\* C24 happens: the session is over, and the transcript ends with the
\* completion entry followed by the entry of a later message event.
LateStragglersWitness ==
    /\ completed[1] /\ ~isSubAgentActive[1]
    /\ \E n \in 2..Len(subAgentMessages[1]) :
        /\ n = Len(subAgentMessages[1])
        /\ subAgentMessages[1][n - 1].src.topic = ViewerTopic(5, ParentSessionId)
        /\ subAgentMessages[1][n].src.topic = ViewerTopic(4, ParentSessionId)

\* C25: isSubAgentActive of a TaskWithLiveSession is false whenever a result
\* is supplied, and no step (event, prop change, effect run, unmount) makes it
\* true once it is false.
MonotoneTaskActive ==
    [][\A i \in Instances : component[i] = Task =>
        /\ Truthy(props'[i].result) => ~isSubAgentActive'[i]
        /\ ~isSubAgentActive[i] => ~isSubAgentActive'[i]]_vars

\* C25 happens: a task opened without result has captured messages, got its
\* result and another description, and its flag is false.
MonotoneTaskActiveWitness ==
    /\ component[1] = Task /\ mounted[1] = "mounted"
    /\ ~Truthy(openedWith[1]) /\ Truthy(props[1].result)
    /\ props[1].description = "d2"
    /\ Len(liveMessages[1]) > 0
    /\ ~isSubAgentActive[1]

\* C26: every event on claude-error:{sessionId} handed to the live error
\* listener of a mounted SubAgentSession appends exactly one entry, of type
\* system and subtype error with the payload as its result, and leaves the
\* entries before it as they were.
ErrorAppendsOne ==
    [][LET e == lastHandled'[1].event
           last == liveMessages'[1][Len(liveMessages'[1])]
       IN (/\ nEvents' = nEvents + 1 /\ lastHandled'[1].seq = nEvents'
           /\ component[1] = Session /\ isMountedRef[1]
           /\ e.topic = SessionTopic(3, SessionId) /\ <<1, 3>> \in listeners)
          => /\ Len(liveMessages'[1]) = Len(liveMessages[1]) + 1
             /\ IsPrefix(liveMessages[1], liveMessages'[1])
             /\ last.src = e
             /\ SubSeq(last.value, 1, 7) =
                    <<"object", "type", "system", "subtype", "error",
                      "result", e.data.text>>]_vars

\* C26 happens: the error entry stands after the entry of an output event.
ErrorAppendsOneWitness ==
    /\ component[1] = Session
    /\ Len(liveMessages[1]) = 2
    /\ liveMessages[1][1].src.topic = SessionTopic(1, SessionId)
    /\ liveMessages[1][2].src.topic = SessionTopic(3, SessionId)

\* C27: a mounted viewer or widget that has no result, and to which no
\* event has been published yet, is not active: isSubAgentActive is false,
\* and so is isActive of a widget.
InitialIdle ==
    \A i \in Instances :
        (/\ mounted[i] = "mounted" /\ component[i] \in {Viewer, Widget}
         /\ ~Truthy(props[i].result)
         /\ nEvents = 0)
        => /\ ~isSubAgentActive[i]
           /\ component[i] = Widget => ~isActive(i)

\* C28: a mounted widget whose last handled event is a complete event of the
\* tracked tool is not active, with or without a result.
WidgetInactiveAfterComplete ==
    \A i \in Instances :
        (/\ mounted[i] = "mounted" /\ component[i] = Widget
         /\ lastHandled[i].event.topic = WidgetTopic(3, ParentSessionId)
         /\ lastHandled[i].event.data.tool_id = Str(props[i].toolId))
        => ~isActive(i)

\* C29: an output event handed to the live output listener of a widget is
\* appended to subAgentOutput exactly when its tool_id or its subagent_id
\* equals the tracked toolId.
WidgetOutputCorrelation ==
    [][LET e == lastHandled'[1].event
       IN (/\ nEvents' = nEvents + 1 /\ lastHandled'[1].seq = nEvents'
           /\ component[1] = Widget
           /\ e.topic = WidgetTopic(2, ParentSessionId) /\ <<1, 2>> \in listeners)
          => ((subAgentOutput'[1] = Append(subAgentOutput[1], e))
              <=> \/ e.data.tool_id = Str(props[1].toolId)
                  \/ e.data.subagent_id = Str(props[1].toolId))]_vars

\* C30: once the complete handler of a SubAgentSession has cleared
\* isSubAgentActive and the listener effect has run again, which runs its
\* cleanup, no step changes liveMessages.
QuietAfterComplete ==
    [][\A i \in Instances :
        (/\ component[i] = Session
         /\ ~Truthy(openedWith[i]) /\ ~isSubAgentActive[i]
         /\ effectDeps[i] = FALSE)
        => liveMessages'[i] = liveMessages[i]]_vars

\* C31: when a SubAgentSession is handed on claude-output the payload that
\* its last handled event, also on claude-output, carried, and the entry of
\* that delivery is the last of liveMessages, the step appends nothing: the
\* payload has one entry.
AtomicCheckAndSet ==
    [][\A i \in Instances :
        LET e == lastHandled'[i].event
            n == Len(liveMessages[i])
        IN (/\ nEvents' = nEvents + 1 /\ lastHandled'[i].seq = nEvents'
            /\ component[i] = Session /\ isMountedRef[i]
            /\ e.topic = "claude-output" /\ <<i, 4>> \in listeners
            /\ lastHandled[i].event = e /\ lastHandled[i].seq = nEvents
            /\ n > 0 /\ liveMessages[i][n].src = e /\ liveMessages[i][n].seq = nEvents)
           => liveMessages'[i] = liveMessages[i]]_vars

\* C31 happens: the same payload was handed twice in a row to the generic
\* listener of a session, and liveMessages holds the entry of the first
\* delivery only.
AtomicCheckAndSetWitness ==
    \E i \in Instances :
        /\ component[i] = Session /\ isMountedRef[i]
        /\ lastHandled[i].seq = 2 /\ lastHandled[i].event.topic = "claude-output"
        /\ Len(liveMessages[i]) = 1
        /\ liveMessages[i][1].seq = 1
        /\ liveMessages[i][1].src = lastHandled[i].event

\* C32: a payload that matches isSubAgentMessage and is the payload of no
\* entry of liveMessages, handed to the live listener of a mounted
\* TaskWithLiveSession, is appended.
TaskDedupOnlyIdentical ==
    [][\A i \in Instances :
        LET e == lastHandled'[i].event
        IN (/\ nEvents' = nEvents + 1 /\ lastHandled'[i].seq = nEvents'
            /\ component[i] = Task /\ isMountedRef[i]
            /\ e.topic = "claude-output" /\ <<i, 1>> \in listeners
            /\ isSubAgentMessage(e.data.text, props[i])
            /\ \A n \in 1..Len(liveMessages[i]) :
                    liveMessages[i][n].src.data.text # e.data.text)
           => /\ Len(liveMessages'[i]) = Len(liveMessages[i]) + 1
              /\ liveMessages'[i][Len(liveMessages'[i])].src = e]_vars

\* C33: no two entries of liveMessages of a TaskWithLiveSession are captured
\* from the same payload.
TaskNoRepeatedPayload ==
    \A i \in Instances : component[i] = Task =>
        \A m, n \in 1..Len(liveMessages[i]) :
            m < n => liveMessages[i][m].src.data.text # liveMessages[i][n].src.data.text

\* C34: a step that hands a viewer an event on its message topic or its
\* output topic leaves isSubAgentActive as it was, and leaves subAgentMessages
\* as it was too when the event is a message that names another tool or that
\* the duplicate check skips.
MessageFrame ==
    [][\A i \in Instances :
        LET e == lastHandled'[i].event
        IN (/\ nEvents' = nEvents + 1 /\ lastHandled'[i].seq = nEvents'
            /\ component[i] = Viewer
            /\ \/ e.topic = ViewerTopic(2, ParentSessionId) /\ <<i, 2>> \in listeners
               \/ e.topic = ViewerTopic(4, ParentSessionId) /\ <<i, 4>> \in listeners)
           => /\ isSubAgentActive'[i] = isSubAgentActive[i]
              /\ (/\ e.topic = ViewerTopic(4, ParentSessionId)
                  /\ \/ Truthy(e.data.tool_id) /\ e.data.tool_id # Str(props[i].toolId)
                     \/ /\ e.data.message
                        /\ isDuplicate(subAgentMessages[i],
                                       ConvertMessage(e.data, nEvents', e)))
                 => subAgentMessages'[i] = subAgentMessages[i]]_vars

\* C34 happens: a message was handed twice to two viewers; the one it names
\* has the entry of the first delivery only and is still active, the other
\* one has no entry of it.
MessageFrameWitness ==
    \E i, j \in Instances :
        /\ i # j /\ nEvents = 2
        /\ lastHandled[i].seq = 2 /\ lastHandled[j].seq = 2
        /\ lastHandled[i].event.topic = ViewerTopic(4, ParentSessionId)
        /\ lastHandled[i].event.data.tool_id = Str(props[i].toolId)
        /\ isSubAgentActive[i]
        /\ \E n \in 1..Len(subAgentMessages[i]) :
                /\ subAgentMessages[i][n].src = lastHandled[i].event
                /\ subAgentMessages[i][n].seq = 1
        /\ \A n \in 1..Len(subAgentMessages[i]) : subAgentMessages[i][n].seq # 2
        /\ \A n \in 1..Len(subAgentMessages[j]) :
                subAgentMessages[j][n].src # lastHandled[j].event

\* C35: preprocessTextForMarkdown applied to what it returned returns the
\* same text, and what it returns has no pipe and no three newlines in a row.
PreprocessIdempotent ==
    [][/\ calls >= 1 => processedText' = processedText
       /\ calls' >= 1 =>
            /\ \A k \in 1..Len(processedText') : processedText'[k] # "|"
            /\ \A k \in 1..(Len(processedText') - 2) :
                    ~(/\ processedText'[k] = NL /\ processedText'[k + 1] = NL
                      /\ processedText'[k + 2] = NL)]_vars

\* C35 happens: a text with three pipes in a row and blanks at its ends has
\* been preprocessed twice.
PreprocessIdempotentWitness ==
    /\ calls = 2
    /\ textArg = <<" ", "|", "|", "|", "a">>
    /\ processedText = <<"a">>

\* C36: for a path with a separator, getParentAndFileName returns one of the
\* path's components, a forward slash, and what getFileName returns.
ParentAndFileNameShape ==
    (calls = 2 /\ \E k \in 1..Len(filePath) : IsSeparator(filePath[k]))
    => \E n \in 1..Len(split(filePath)) :
            parentAndFileName = split(filePath)[n] \o <<"/">> \o fileName

\* C10: every step leaves the transcript it found as a prefix of the
\* transcript it leaves.
AppendOnlyTranscript ==
    [][\A i \in Instances : IsPrefix(subAgentMessages[i], subAgentMessages'[i])]_vars

=============================================================================
